---- MODULE Spec2Model ----
(***************************************************************************)
(* Kenya real-estate scraper: the Orchestrator (src/src/main.js), the two  *)
(* SourceCrawlers (createBuyRentKenyaCrawler and createJijiCrawler, both   *)
(* in src/src/buyrentkenya.js) and the price normalizer                    *)
(* (src/src/normalize.js).                                                 *)
(*                                                                         *)
(* JavaScript runs every handler to its next await without interruption,  *)
(* so a stretch of code without an await is one action here, and every     *)
(* await of a handler is a point where the other in-flight handlers of the *)
(* same crawler may run.                                                   *)
(***************************************************************************)
EXTENDS Integers, Sequences, FiniteSets, TLC

\* ------------------------------------------------------------------ bounds

\* Longest configured source sequence.
MaxSources == 2
\* Largest global maxListings of the input.
MaxGlobalListings == 2
\* Number of requests the engine keeps in flight at once.
MaxWidth == 2
\* Most anchors the link selectors match on one LIST page.
MaxLinks == 2
\* Distinct detail URLs of a site; the last one has no "/item/" in its path.
MaxUrlId == 2
\* LIST pages of the site in the orchestrator runs of Spec (a page with no
\* next link ends the site earlier).
MaxPages == 2
\* LIST pages the deep site of SpecCrawl has beyond the engine's request limit.
DeepSiteSlack == 2
\* The global maxListings of the deep-site runs of SpecCrawl.
DeepListings == 3

\* --------------------------------------------------------------- constants

\* maxRequestsPerCrawl: maxListings + 50
MaxRequestsExtra == 50

SourceNames == {"buyrentkenya", "Jiji", "zillow", "constructor"}

VARIABLES
    \* Orchestrator (main.js)
    opc,            \* position in main: readInput, loop, crawl, setValue, catch, finally, done
                    \* ("unit": main is not running, a function is called on its own)
    sources,        \* input.sources
    maxListings,    \* input.maxListings
    srcIdx,         \* position of the for-of loop in sources
    allListings,    \* const allListings = []
    dataset,        \* what Actor.pushData stored
    output,         \* every value written to the OUTPUT key, in order
    error,          \* the exception the try block threw ("none": none)
    raised,         \* the exception that leaves main ("none": none)
    crawled,        \* indexes of sources whose crawler was instantiated and run
    \* the SourceCrawler of the current source (closure of the factory)
    kind,           \* which factory made it
    cap,            \* its maxListings option
    listings,       \* const listings = []
    listingCount,   \* let listingCount = 0
    queue,          \* the engine's request queue, FIFO
    slots,          \* the requests in flight, with each handler's position
    handled,        \* requests the engine has finished (handled or failed)
    errorLog,       \* number of log.error lines of failedRequestHandler
    siteDepth,      \* number of LIST pages the site has
    \* one call of normalizePrice(priceStr, targetCurrency)
    priceInput,     \* priceStr: null or a text
    priceTarget,    \* targetCurrency
    priceCase,      \* how a text of the price grammar was written (see PriceGrammar)
    priceResult,    \* the returned Price, once the call is done
    \* one call of another function of normalize.js
    call,           \* the function called, its argument and how the argument was written
    ret             \* what the call returned or threw, once it is done

ovars == <<opc, sources, maxListings, srcIdx, allListings, dataset, output, error, raised, crawled>>
cvars == <<kind, cap, listings, listingCount, queue, slots, handled, errorLog>>
uvars == <<call, ret>>
pvars == <<priceInput, priceTarget, priceCase, priceResult, uvars>>
vars == <<ovars, cvars, siteDepth, pvars>>

\* ------------------------------------------------------------ Orchestrator

\* String.prototype.toLowerCase on the source names of the model.
ToLowerCase(s) == IF s = "Jiji" THEN "jiji" ELSE s

\* CRAWLERS[key]: a property read of an object literal, which also finds the
\* properties inherited from Object.prototype.
CrawlersLookup(key) ==
    CASE key = "buyrentkenya" -> "createBuyRentKenyaCrawler"
      [] key = "jiji" -> "createJijiCrawler"
      [] key = "constructor" -> "Object"
      [] OTHER -> "undefined"

CrawlerFactories == {"createBuyRentKenyaCrawler", "createJijiCrawler"}

PerSourceCapFloor(m, n) == m \div n

\* Math.ceil(maxListings / sources.length)
PerSourceCap(m, n) == (m + n - 1) \div n

Idle == [pc |-> "idle", label |-> "none", url |-> 0, links |-> <<>>, i |-> 0]

NoCrawler ==
    /\ kind = "none" /\ cap = 0 /\ listings = <<>> /\ listingCount = 0
    /\ queue = <<>> /\ slots = [s \in 1..MaxWidth |-> Idle] /\ handled = 0
    /\ errorLog = 0

\* A text is a sequence of one-character strings; a value that may be null
\* carries a flag.
NullText == [null |-> TRUE, text |-> <<>>]

Text(t) == [null |-> FALSE, text |-> t]

\* amount: null, NaN or the decimal number m * 10^p (m not a multiple of 10).
NullAmount == [kind |-> "null", m |-> 0, p |-> 0]

NaN == [kind |-> "NaN", m |-> 0, p |-> 0]

NotWritten == [family |-> FALSE, value |-> 0, currency |-> "KES"]

Pending == [done |-> FALSE, amount |-> NullAmount, currency |-> "KES", original |-> NullText]

NoPriceCall ==
    /\ priceInput = NullText
    /\ priceTarget = "KES"
    /\ priceCase = NotWritten
    /\ priceResult = Pending
    /\ call = [fn |-> "none"]
    /\ ret = [done |-> FALSE]

SeqsUpTo(S, n) == UNION {[1..k -> S] : k \in 0..n}

InitOrchestrator ==
    /\ opc = "readInput"
    /\ srcIdx = 0
    /\ allListings = <<>>
    /\ dataset = <<>>
    /\ output = <<>>
    /\ error = "none"
    /\ raised = "none"
    /\ crawled = {}
    /\ NoCrawler
    /\ NoPriceCall

Init ==
    /\ sources \in SeqsUpTo(SourceNames, MaxSources)
    /\ maxListings \in 0..MaxGlobalListings
    /\ siteDepth = MaxPages
    /\ InitOrchestrator

\* try { input = await Actor.getInput() ... createProxyConfiguration }
ReadInput ==
    /\ opc = "readInput"
    /\ \/ opc' = "loop" /\ srcIdx' = 1 /\ UNCHANGED error
       \/ opc' = "catch" /\ error' = "getInput" /\ UNCHANGED srcIdx
    /\ UNCHANGED <<sources, maxListings, allListings, dataset, output, raised, crawled>>
    /\ UNCHANGED <<cvars, siteDepth, pvars>>

\* if (!crawlerFactory) { console.warn(...); continue; }
SkipUnknownSource ==
    /\ opc = "loop"
    /\ srcIdx <= Len(sources)
    /\ CrawlersLookup(ToLowerCase(sources[srcIdx])) = "undefined"
    /\ srcIdx' = srcIdx + 1
    /\ UNCHANGED <<opc, sources, maxListings, allListings, dataset, output, error, raised, crawled>>
    /\ UNCHANGED <<cvars, siteDepth, pvars>>

\* crawlerFactory({...}) and crawlerInstance.buildSearchUrl(...) with a value
\* of CRAWLERS[...] that is truthy and no crawler factory: a TypeError.
FactoryThrows ==
    /\ opc = "loop"
    /\ srcIdx <= Len(sources)
    /\ CrawlersLookup(ToLowerCase(sources[srcIdx])) \notin CrawlerFactories \cup {"undefined"}
    /\ opc' = "catch"
    /\ error' = "TypeError"
    /\ UNCHANGED <<sources, maxListings, srcIdx, allListings, dataset, output, raised, crawled>>
    /\ UNCHANGED <<cvars, siteDepth, pvars>>

\* crawlerFactory({..., maxListings: Math.ceil(maxListings / sources.length)})
\* and crawler.run([{ url: startUrl, label: 'LIST' }])
StartCrawl ==
    /\ opc = "loop"
    /\ srcIdx <= Len(sources)
    /\ CrawlersLookup(ToLowerCase(sources[srcIdx])) \in CrawlerFactories
    /\ opc' = "crawl"
    /\ kind' = CrawlersLookup(ToLowerCase(sources[srcIdx]))
    /\ cap' = PerSourceCap(maxListings, Len(sources))
    /\ listings' = <<>>
    /\ listingCount' = 0
    /\ queue' = <<[label |-> "LIST", url |-> 1]>>
    /\ slots' = [s \in 1..MaxWidth |-> Idle]
    /\ handled' = 0
    /\ errorLog' = 0
    /\ crawled' = crawled \cup {srcIdx}
    /\ UNCHANGED <<sources, maxListings, srcIdx, allListings, dataset, output, error, raised>>
    /\ UNCHANGED <<siteDepth, pvars>>

\* ----------------------------------------------------------- SourceCrawler

\* An anchor a link selector matched: its href attribute. id 0: the anchor has
\* no href; abs: the href starts with "http", otherwise it is a path relative
\* to BASE_URL. Both spellings of one id name the same detail page.
NoHref == [abs |-> FALSE, id |-> 0]

Hrefs == {NoHref} \cup [abs : BOOLEAN, id : 1..MaxUrlId]

\* href.includes('/item/')
HasItemPath(h) == h.id < MaxUrlId

\* href.startsWith('http') ? href : `${BASE_URL}${href}`
FullUrl(h) == h.id

\* propertyLinks.includes(href): propertyLinks holds full URLs and href is the
\* raw attribute, so the two strings are equal only for an absolute href.
Includes(links, h) == h.abs /\ \E k \in 1..Len(links) : links[k] = FullUrl(h)

\* if (href && !propertyLinks.includes(href) && listingCount + propertyLinks.length < maxListings)
AcceptsBuyRentKenya(h, links, count, max) ==
    /\ h.id # 0
    /\ ~Includes(links, h)
    /\ count + Len(links) < max

\* if (href && href.includes('/item/') && !propertyLinks.includes(href))
\*     if (listingCount + propertyLinks.length < maxListings)
AcceptsJiji(h, links, count, max) ==
    /\ h.id # 0
    /\ HasItemPath(h)
    /\ ~Includes(links, h)
    /\ count + Len(links) < max

Accepts(k, h, links, count, max) ==
    IF k = "createJijiCrawler" THEN AcceptsJiji(h, links, count, max)
    ELSE AcceptsBuyRentKenya(h, links, count, max)

\* $(selectors).each((i, el) => { ... propertyLinks.push(fullUrl) })
RECURSIVE CollectLinks(_, _, _, _, _)
CollectLinks(k, hrefs, links, count, max) ==
    IF hrefs = <<>> THEN links
    ELSE CollectLinks(k, Tail(hrefs),
                      IF Accepts(k, Head(hrefs), links, count, max)
                      THEN Append(links, FullUrl(Head(hrefs))) ELSE links,
                      count, max)

\* normalizeListing(rawListing, 'buyrentkenya' | 'jiji', currency)
SourceOf(k) == IF k = "createJijiCrawler" THEN "jiji" ELSE "buyrentkenya"

\* maxRequestsPerCrawl: maxListings + 50
MaxRequestsPerCrawl(max) == max + MaxRequestsExtra

EngineStartsAlways == TRUE

\* The engine starts no request once it has finished maxRequestsPerCrawl.
EngineMayStart == handled < MaxRequestsPerCrawl(cap)

CrawlFinished ==
    /\ \A s \in 1..MaxWidth : slots[s].pc = "idle"
    /\ queue = <<>> \/ ~EngineMayStart

\* The engine takes the oldest queued request and fetches its page. In-flight
\* requests have no identity of their own: the lowest free slot takes it.
Dispatch(s) ==
    /\ opc = "crawl"
    /\ slots[s].pc = "idle"
    /\ \A t \in 1..(s - 1) : slots[t].pc # "idle"
    /\ queue # <<>>
    /\ EngineMayStart
    /\ slots' = [slots EXCEPT ![s] = [pc |-> "fetched", label |-> Head(queue).label,
                                      url |-> Head(queue).url, links |-> <<>>, i |-> 0]]
    /\ queue' = Tail(queue)
    /\ UNCHANGED <<kind, cap, listings, listingCount, handled, errorLog>>
    /\ UNCHANGED <<ovars, siteDepth, pvars>>

FailedRequestHandlerRetries(s) ==
    /\ opc = "crawl"
    /\ slots[s].pc = "fetched"
    /\ errorLog' = errorLog + 1
    /\ slots' = [slots EXCEPT ![s] = Idle]
    /\ handled' = handled + 1
    /\ queue' = Append(queue, [label |-> slots[s].label, url |-> slots[s].url])
    /\ UNCHANGED <<kind, cap, listings, listingCount>>
    /\ UNCHANGED <<ovars, siteDepth, pvars>>

\* failedRequestHandler({ request, log }) { log.error(...) }: the engine calls
\* it for a request it could not fetch or handle, and counts the request as
\* finished.
FailedRequestHandler(s) ==
    /\ opc = "crawl"
    /\ slots[s].pc = "fetched"
    /\ errorLog' = errorLog + 1
    /\ slots' = [slots EXCEPT ![s] = Idle]
    /\ handled' = handled + 1
    /\ UNCHANGED <<kind, cap, listings, listingCount, queue>>
    /\ UNCHANGED <<ovars, siteDepth, pvars>>

DetailQuotaOffByOne(count, max) == count > max

\* if (listingCount >= maxListings) return;
DetailQuotaReached(count, max) == count >= max

NewListing == [source |-> SourceOf(kind), run |-> srcIdx, n |-> listingCount + 1]

HandleDetailRequeues(s) ==
    /\ opc = "crawl"
    /\ slots[s].pc = "fetched"
    /\ slots[s].label = "DETAIL"
    /\ IF DetailQuotaReached(listingCount, cap)
       THEN /\ UNCHANGED <<listings, listingCount>>
            /\ queue' = Append(queue, [label |-> "DETAIL", url |-> slots[s].url])
       ELSE /\ listings' = Append(listings, NewListing)
            /\ listingCount' = listingCount + 1
            /\ UNCHANGED queue
    /\ slots' = [slots EXCEPT ![s] = Idle]
    /\ handled' = handled + 1
    /\ UNCHANGED <<kind, cap, errorLog>>
    /\ UNCHANGED <<ovars, siteDepth, pvars>>

\* requestHandler, request.label === 'DETAIL': no await between the check and
\* the increment.
HandleDetail(s) ==
    /\ opc = "crawl"
    /\ slots[s].pc = "fetched"
    /\ slots[s].label = "DETAIL"
    /\ IF DetailQuotaReached(listingCount, cap)
       THEN UNCHANGED <<listings, listingCount>>
       ELSE /\ listings' = Append(listings, NewListing)
            /\ listingCount' = listingCount + 1
    /\ slots' = [slots EXCEPT ![s] = Idle]
    /\ handled' = handled + 1
    /\ UNCHANGED <<kind, cap, queue, errorLog>>
    /\ UNCHANGED <<ovars, siteDepth, pvars>>

PageHrefs == SeqsUpTo(Hrefs, MaxLinks)

\* requestHandler, LIST: the .each loop that fills propertyLinks, up to the
\* first await.
ListCollect(s) ==
    /\ opc = "crawl"
    /\ slots[s].pc = "fetched"
    /\ slots[s].label = "LIST"
    /\ \E links \in {CollectLinks(kind, hrefs, <<>>, listingCount, cap) : hrefs \in PageHrefs} :
         slots' = [slots EXCEPT ![s].pc = "enqueue", ![s].links = links, ![s].i = 1]
    /\ UNCHANGED <<kind, cap, listings, listingCount, queue, handled, errorLog>>
    /\ UNCHANGED <<ovars, siteDepth, pvars>>

\* for (const link of propertyLinks) await crawler.addRequests([{ url: link, label: 'DETAIL' }])
ListEnqueue(s) ==
    /\ opc = "crawl"
    /\ slots[s].pc = "enqueue"
    /\ slots[s].i <= Len(slots[s].links)
    /\ queue' = Append(queue, [label |-> "DETAIL", url |-> slots[s].links[slots[s].i]])
    /\ slots' = [slots EXCEPT ![s].i = @ + 1]
    /\ UNCHANGED <<kind, cap, listings, listingCount, handled, errorLog>>
    /\ UNCHANGED <<ovars, siteDepth, pvars>>

PaginationBudgetNotOverrun(count, links, max) == count + Len(links) <= max

\* if (listingCount + propertyLinks.length < maxListings)
PaginationBudgetLeft(count, links, max) == count + Len(links) < max

\* Handle pagination: await enqueueLinks({ selector: <next page>, label: 'LIST' })
ListPaginate(s) ==
    /\ opc = "crawl"
    /\ slots[s].pc = "enqueue"
    /\ slots[s].i > Len(slots[s].links)
    /\ \E hasNext \in BOOLEAN :
         /\ hasNext => slots[s].url < siteDepth
         /\ IF PaginationBudgetLeft(listingCount, slots[s].links, cap) /\ hasNext
            THEN queue' = Append(queue, [label |-> "LIST", url |-> slots[s].url + 1])
            ELSE UNCHANGED queue
    /\ slots' = [slots EXCEPT ![s] = Idle]
    /\ handled' = handled + 1
    /\ UNCHANGED <<kind, cap, listings, listingCount, errorLog>>
    /\ UNCHANGED <<ovars, siteDepth, pvars>>

\* ------------------------------------------------ Orchestrator, continued

PrependListings(all, ls) == ls \o all

\* allListings.push(...sourceListings)
PushListings(all, ls) == all \o ls

\* await crawler.run(...) resolves; sourceListings = crawlerInstance.getListings()
FinishCrawl ==
    /\ opc = "crawl"
    /\ CrawlFinished
    /\ allListings' = PushListings(allListings, listings)
    /\ srcIdx' = srcIdx + 1
    /\ opc' = "loop"
    /\ UNCHANGED <<sources, maxListings, dataset, output, error, raised, crawled>>
    /\ UNCHANGED <<cvars, siteDepth, pvars>>

\* await crawler.run(...) rejects
RunThrows ==
    /\ opc = "crawl"
    /\ CrawlFinished
    /\ opc' = "catch"
    /\ error' = "run"
    /\ UNCHANGED <<sources, maxListings, srcIdx, allListings, dataset, output, raised, crawled>>
    /\ UNCHANGED <<cvars, siteDepth, pvars>>

\* if (allListings.length > 0) await Actor.pushData(allListings)
PushData ==
    /\ opc = "loop"
    /\ srcIdx > Len(sources)
    /\ IF Len(allListings) > 0
       THEN \/ dataset' = allListings /\ opc' = "setValue" /\ UNCHANGED error
            \/ opc' = "catch" /\ error' = "pushData" /\ UNCHANGED dataset
       ELSE opc' = "setValue" /\ UNCHANGED <<dataset, error>>
    /\ UNCHANGED <<sources, maxListings, srcIdx, allListings, output, raised, crawled>>
    /\ UNCHANGED <<cvars, siteDepth, pvars>>

\* { success: true, totalListings: allListings.length, ... }; the summaries of
\* the model carry the fields of both shapes, an absent one as -1 or "none".
SuccessSummary(all) == [success |-> TRUE, totalListings |-> Len(all), error |-> "none"]

\* { success: false, error: error.message }
FailureSummary(e) == [success |-> FALSE, totalListings |-> -1, error |-> e]

\* await Actor.setValue('OUTPUT', { success: true, ... })
SetValueSuccess ==
    /\ opc = "setValue"
    /\ \/ output' = Append(output, SuccessSummary(allListings)) /\ opc' = "finally" /\ UNCHANGED error
       \/ opc' = "catch" /\ error' = "setValue" /\ UNCHANGED output
    /\ UNCHANGED <<sources, maxListings, srcIdx, allListings, dataset, raised, crawled>>
    /\ UNCHANGED <<cvars, siteDepth, pvars>>

CatchSwallows ==
    /\ opc = "catch"
    /\ \/ output' = Append(output, FailureSummary(error)) /\ raised' = "none"
       \/ raised' = "setValueInCatch" /\ UNCHANGED output
    /\ opc' = "finally"
    /\ UNCHANGED <<sources, maxListings, srcIdx, allListings, dataset, error, crawled>>
    /\ UNCHANGED <<cvars, siteDepth, pvars>>

\* catch (error) { await Actor.setValue('OUTPUT', { success: false, error }); throw error; }
\* The write either stores the summary, and the caught error is thrown again,
\* or throws itself, and its own error leaves the catch block instead.
Catch ==
    /\ opc = "catch"
    /\ \/ output' = Append(output, FailureSummary(error)) /\ raised' = error
       \/ raised' = "setValueInCatch" /\ UNCHANGED output
    /\ opc' = "finally"
    /\ UNCHANGED <<sources, maxListings, srcIdx, allListings, dataset, error, crawled>>
    /\ UNCHANGED <<cvars, siteDepth, pvars>>

\* finally { await Actor.exit(); }
Finally ==
    /\ opc = "finally"
    /\ opc' = "done"
    /\ UNCHANGED <<sources, maxListings, srcIdx, allListings, dataset, output, error, raised, crawled>>
    /\ UNCHANGED <<cvars, siteDepth, pvars>>

Next ==
    \/ ReadInput
    \/ SkipUnknownSource
    \/ FactoryThrows
    \/ StartCrawl
    \/ \E s \in 1..MaxWidth : Dispatch(s)
    \/ \E s \in 1..MaxWidth : FailedRequestHandler(s)
    \/ \E s \in 1..MaxWidth : HandleDetail(s)
    \/ \E s \in 1..MaxWidth : ListCollect(s)
    \/ \E s \in 1..MaxWidth : ListEnqueue(s)
    \/ \E s \in 1..MaxWidth : ListPaginate(s)
    \/ FinishCrawl
    \/ RunThrows
    \/ PushData
    \/ SetValueSuccess
    \/ Catch
    \/ Finally

Spec == Init /\ [][Next]_vars

\* The same program on a site with more LIST pages than the engine's request
\* limit lets one crawl handle.
InitCrawl ==
    /\ sources \in {<<"zillow", "Jiji">>, <<"constructor">>}
    /\ maxListings = DeepListings
    /\ siteDepth = MaxRequestsPerCrawl(maxListings) + DeepSiteSlack
    /\ InitOrchestrator

SpecCrawl == InitCrawl /\ [][Next]_vars

\* The engine keeps starting queued requests while it may, every fetch and
\* handler comes to an end, and main goes on once crawler.run has resolved.
SpecCrawlFair == InitCrawl /\ [][Next]_vars /\ WF_vars(Next)

\* ---------------------------------------------------------- normalizePrice

\* Longest free text given to normalizePrice.
MaxPriceLen == 3

PriceAlphabet == {"K", "S", "H", "M", "$", "5", "0", ".", ",", " ", "/", "="}

TargetCurrencies == {"KES", "USD", "EUR"}

DigitChars == <<"0", "1", "2", "3", "4", "5", "6", "7", "8", "9">>

LowerLetters ==
    <<"a", "b", "c", "d", "e", "f", "g", "h", "i", "j", "k", "l", "m",
      "n", "o", "p", "q", "r", "s", "t", "u", "v", "w", "x", "y", "z">>

UpperLetters ==
    <<"A", "B", "C", "D", "E", "F", "G", "H", "I", "J", "K", "L", "M",
      "N", "O", "P", "Q", "R", "S", "T", "U", "V", "W", "X", "Y", "Z">>

IsDigit(c) == \E d \in 1..10 : DigitChars[d] = c

DigitValue(c) == (CHOOSE d \in 1..10 : DigitChars[d] = c) - 1

ToUpperChar(c) ==
    IF \E k \in 1..26 : LowerLetters[k] = c
    THEN UpperLetters[CHOOSE k \in 1..26 : LowerLetters[k] = c]
    ELSE c

\* String.prototype.toUpperCase
ToUpperCase(t) == [k \in 1..Len(t) |-> ToUpperChar(t[k])]

RECURSIVE TrimStart(_)
TrimStart(t) == IF t # <<>> /\ Head(t) = " " THEN TrimStart(Tail(t)) ELSE t

RECURSIVE TrimEnd(_)
TrimEnd(t) ==
    IF t # <<>> /\ t[Len(t)] = " " THEN TrimEnd(SubSeq(t, 1, Len(t) - 1)) ELSE t

\* String.prototype.trim
Trim(t) == TrimEnd(TrimStart(t))

Drop(t, n) == SubSeq(t, n + 1, Len(t))

\* a case-insensitive match of the word w at the start of t
StartsWithI(t, w) == Len(t) >= Len(w) /\ ToUpperCase(SubSeq(t, 1, Len(w))) = w

\* a variant that strips the spaces and leaves the commas
RECURSIVE KeepSeparators(_)
KeepSeparators(t) ==
    IF t = <<>> THEN <<>>
    ELSE IF Head(t) = " " THEN KeepSeparators(Tail(t))
    ELSE <<Head(t)>> \o KeepSeparators(Tail(t))

\* .replace(/[,\s]/g, '')
RECURSIVE RemoveSeparators(_)
RemoveSeparators(t) ==
    IF t = <<>> THEN <<>>
    ELSE IF Head(t) \in {",", " "} THEN RemoveSeparators(Tail(t))
    ELSE <<Head(t)>> \o RemoveSeparators(Tail(t))

\* /KSH|KES|SH|\/=|SHILLINGS?/gi at the start of t: the length of the match of
\* the first alternative that matches, 0 when none does.
KesMarkerAt(t) ==
    IF StartsWithI(t, <<"K", "S", "H">>) THEN 3
    ELSE IF StartsWithI(t, <<"K", "E", "S">>) THEN 3
    ELSE IF StartsWithI(t, <<"S", "H">>) THEN 2
    ELSE IF StartsWithI(t, <<"/", "=">>) THEN 2
    ELSE IF StartsWithI(t, <<"S", "H", "I", "L", "L", "I", "N", "G", "S">>) THEN 9
    ELSE IF StartsWithI(t, <<"S", "H", "I", "L", "L", "I", "N", "G">>) THEN 8
    ELSE 0

\* .replace(/KSH|KES|SH|\/=|SHILLINGS?/gi, '')
RECURSIVE StripKesMarkers(_)
StripKesMarkers(t) ==
    IF t = <<>> THEN <<>>
    ELSE IF KesMarkerAt(t) > 0 THEN StripKesMarkers(Drop(t, KesMarkerAt(t)))
    ELSE <<Head(t)>> \o StripKesMarkers(Tail(t))

\* /USD|\$/gi at the start of t
UsdMarkerAt(t) ==
    IF StartsWithI(t, <<"U", "S", "D">>) THEN 3
    ELSE IF StartsWithI(t, <<"$">>) THEN 1
    ELSE 0

\* .replace(/USD|\$/gi, () => { sourceCurrency = 'USD'; return ''; })
RECURSIVE StripUsdMarkers(_)
StripUsdMarkers(t) ==
    IF t = <<>> THEN [text |-> <<>>, found |-> FALSE]
    ELSE IF UsdMarkerAt(t) > 0
         THEN [text |-> StripUsdMarkers(Drop(t, UsdMarkerAt(t))).text, found |-> TRUE]
    ELSE LET rest == StripUsdMarkers(Tail(t))
         IN  [text |-> <<Head(t)>> \o rest.text, found |-> rest.found]

IsNumChar(c) == IsDigit(c) \/ c = "."

RECURSIVE NumRun(_)
NumRun(t) ==
    IF t # <<>> /\ IsNumChar(Head(t)) THEN <<Head(t)>> \o NumRun(Tail(t)) ELSE <<>>

\* cleaned.match(/[\d.]+/): the first longest run of digits and dots (<<>>: no match)
RECURSIVE NumMatch(_)
NumMatch(t) ==
    IF t = <<>> THEN <<>>
    ELSE IF IsNumChar(Head(t)) THEN NumRun(t)
    ELSE NumMatch(Tail(t))

RECURSIVE DigitRun(_)
DigitRun(t) ==
    IF t # <<>> /\ IsDigit(Head(t)) THEN <<Head(t)>> \o DigitRun(Tail(t)) ELSE <<>>

RECURSIVE DigitsValue(_)
DigitsValue(ds) ==
    IF ds = <<>> THEN 0
    ELSE 10 * DigitsValue(SubSeq(ds, 1, Len(ds) - 1)) + DigitValue(ds[Len(ds)])

RECURSIVE Pow10(_)
Pow10(k) == IF k = 0 THEN 1 ELSE 10 * Pow10(k - 1)

\* the number m * 10^p in its one normal form
RECURSIVE Num(_, _)
Num(m, p) ==
    IF m = 0 THEN [kind |-> "num", m |-> 0, p |-> 0]
    ELSE IF m % 10 = 0 THEN Num(m \div 10, p + 1)
    ELSE [kind |-> "num", m |-> m, p |-> p]

\* parseFloat on a run of digits and dots: the longest prefix
\* digits [. digits] with a digit in it, NaN when there is none.
ParseFloat(run) ==
    LET int == DigitRun(run)
        rest == Drop(run, Len(int))
        frac == IF rest # <<>> /\ Head(rest) = "." THEN DigitRun(Tail(rest)) ELSE <<>>
    IN  IF int = <<>> /\ frac = <<>> THEN NaN
        ELSE Num(DigitsValue(int \o frac), -Len(frac))

\* amount * 10^k in floating point (exact for the numbers of the model)
Scale(a, k) == IF a.kind = "num" THEN Num(a.m, a.p + k) ELSE a

Times(a, c) == IF a.kind = "num" THEN Num(a.m * c, a.p) ELSE a

RoundDown(a) ==
    IF a.kind # "num" \/ a.p >= 0 THEN a
    ELSE Num(a.m \div Pow10(-a.p), 0)

\* Math.round: to the nearest integer, a half upwards
Round(a) ==
    IF a.kind # "num" \/ a.p >= 0 THEN a
    ELSE Num((2 * a.m + Pow10(-a.p)) \div (2 * Pow10(-a.p)), 0)

Contains(t, c) == \E k \in 1..Len(t) : t[k] = c

\* if (cleaned.includes('M')) amount *= 1000000; else if (cleaned.includes('K')) amount *= 1000;
ApplySuffix(a, cleaned) ==
    IF Contains(cleaned, "M") THEN Scale(a, 6)
    ELSE IF Contains(cleaned, "K") THEN Scale(a, 3)
    ELSE a

\* Math.round(amount * KES_TO_USD_RATE * 100) / 100, KES_TO_USD_RATE = 0.0064
KesToUsd(a) == Scale(Round(Scale(Scale(Times(a, 64), -4), 2)), -2)

UsdToKesTruncated(a) == RoundDown(Scale(Times(a, 15625), -2))

\* Math.round(amount * USD_TO_KES_RATE), USD_TO_KES_RATE = 156.25
UsdToKes(a) == Round(Scale(Times(a, 15625), -2))

\* if (amount !== null && sourceCurrency !== targetCurrency) { ... }
Convert(a, source, target) ==
    IF a.kind # "null" /\ source # target
    THEN IF source = "KES" /\ target = "USD" THEN KesToUsd(a)
         ELSE IF source = "USD" /\ target = "KES" THEN UsdToKes(a)
         ELSE a
    ELSE a

Cleaned(original) ==
    Trim(StripUsdMarkers(StripKesMarkers(RemoveSeparators(ToUpperCase(original)))).text)

SourceCurrency(original) ==
    IF StripUsdMarkers(StripKesMarkers(RemoveSeparators(ToUpperCase(original)))).found
    THEN "USD" ELSE "KES"

\* export function normalizePrice(priceStr, targetCurrency = 'KES')
NormalizePrice(input, target) ==
    IF input.null \/ input.text = <<>>
    THEN [done |-> TRUE, amount |-> NullAmount, currency |-> target, original |-> NullText]
    ELSE LET original == Trim(input.text)
             cleaned == Cleaned(original)
             numMatch == NumMatch(cleaned)
             amount == IF numMatch # <<>> THEN ApplySuffix(ParseFloat(numMatch), cleaned)
                       ELSE NullAmount
         IN  [done |-> TRUE,
              amount |-> Convert(amount, SourceCurrency(original), target),
              currency |-> target,
              original |-> Text(original)]

\* The price grammar: an optional currency marker, digits with thousands
\* separators (a comma or a space), an optional K or M suffix.
Markers ==
    { <<>>, <<"K", "E", "S">>, <<"k", "e", "s">>, <<"K", "S", "H">>, <<"K", "s", "h">>,
      <<"S", "H">>, <<"s", "h">>, <<"/", "=">>,
      <<"S", "H", "I", "L", "L", "I", "N", "G", "S">>,
      <<"s", "h", "i", "l", "l", "i", "n", "g", "s">>,
      <<"U", "S", "D">>, <<"u", "s", "d">>, <<"$">> }

MarkerCurrency(mk) ==
    IF ToUpperCase(mk) \in {<<"U", "S", "D">>, <<"$">>} THEN "USD" ELSE "KES"

WrittenValues == {0, 5, 7, 500, 1000, 10000, 50000, 156250, 5000000}

Suffixes == {<<>>, <<"K">>, <<"k">>, <<"M">>, <<"m">>}

SuffixFactor(sf) ==
    IF ToUpperCase(sf) = <<"K">> THEN 1000
    ELSE IF ToUpperCase(sf) = <<"M">> THEN 1000000
    ELSE 1

\* Largest written amount of the grammar's texts.
MaxWritten == 7000000

RECURSIVE PlainDigits(_)
PlainDigits(n) ==
    IF n < 10 THEN <<DigitChars[n + 1]>>
    ELSE PlainDigits(n \div 10) \o <<DigitChars[(n % 10) + 1]>>

\* n in groups of three digits with sep between the groups (<<>>: ungrouped)
RECURSIVE GroupedDigits(_, _)
GroupedDigits(n, sep) ==
    IF n < 1000 THEN PlainDigits(n)
    ELSE GroupedDigits(n \div 1000, sep) \o sep
         \o <<DigitChars[((n \div 100) % 10) + 1], DigitChars[((n \div 10) % 10) + 1],
              DigitChars[(n % 10) + 1]>>

PriceGrammar ==
    { g \in [marker : Markers, gap : {<<>>, <<" ">>}, value : WrittenValues,
             sep : {<<>>, <<",">>, <<" ">>}, suffix : Suffixes, pad : {<<>>, <<" ">>}] :
        g.value <= MaxWritten \div SuffixFactor(g.suffix) }

GrammarText(g) ==
    g.pad \o g.marker \o (IF g.marker = <<>> THEN <<>> ELSE g.gap)
          \o GroupedDigits(g.value, g.sep)
          \o g.suffix \o g.pad

InitPrice ==
    /\ opc = "unit"
    /\ sources = <<>>
    /\ maxListings = 0
    /\ siteDepth = 0
    /\ srcIdx = 0
    /\ allListings = <<>>
    /\ dataset = <<>>
    /\ output = <<>>
    /\ error = "none"
    /\ raised = "none"
    /\ crawled = {}
    /\ NoCrawler
    /\ priceTarget \in TargetCurrencies
    /\ priceResult = Pending
    /\ call = [fn |-> "none"]
    /\ ret = [done |-> FALSE]
    /\ \/ /\ priceInput \in {NullText} \cup {Text(t) : t \in SeqsUpTo(PriceAlphabet, MaxPriceLen)}
          /\ priceCase = NotWritten
       \/ \E g \in PriceGrammar :
            /\ priceInput = Text(GrammarText(g))
            /\ priceCase = [family |-> TRUE, value |-> g.value * SuffixFactor(g.suffix),
                            currency |-> MarkerCurrency(g.marker)]

CallNormalizePrice ==
    /\ opc = "unit"
    /\ ~priceResult.done
    /\ priceResult' = NormalizePrice(priceInput, priceTarget)
    /\ UNCHANGED <<priceInput, priceTarget, priceCase, uvars>>
    /\ UNCHANGED <<ovars, cvars, siteDepth>>

NextPrice == CallNormalizePrice

SpecPrice == InitPrice /\ [][NextPrice]_vars

\* -------------------------------------------------------- normalizeLocation

\* main is not running: a function of normalize.js is called on its own
NoMain ==
    /\ opc = "unit"
    /\ sources = <<>>
    /\ maxListings = 0
    /\ siteDepth = 0
    /\ srcIdx = 0
    /\ allListings = <<>>
    /\ dataset = <<>>
    /\ output = <<>>
    /\ error = "none"
    /\ raised = "none"
    /\ crawled = {}
    /\ NoCrawler
    /\ priceInput = NullText
    /\ priceTarget = "KES"
    /\ priceCase = NotWritten
    /\ priceResult = Pending

ToLowerChar(c) ==
    IF \E k \in 1..26 : UpperLetters[k] = c
    THEN LowerLetters[CHOOSE k \in 1..26 : UpperLetters[k] = c]
    ELSE c

\* String.prototype.toLowerCase on a text
ToLowerChars(t) == [k \in 1..Len(t) |-> ToLowerChar(t[k])]

\* String.prototype.includes on a text
IncludesText(t, w) == \E k \in 0..(Len(t) - Len(w)) : SubSeq(t, k + 1, k + Len(w)) = w

\* const kenyaCities = [...]
kenyaCities ==
    << <<"n", "a", "i", "r", "o", "b", "i">>,
       <<"m", "o", "m", "b", "a", "s", "a">>,
       <<"k", "i", "s", "u", "m", "u">>,
       <<"n", "a", "k", "u", "r", "u">>,
       <<"e", "l", "d", "o", "r", "e", "t">>,
       <<"t", "h", "i", "k", "a">>,
       <<"m", "a", "l", "i", "n", "d", "i">>,
       <<"k", "i", "t", "a", "l", "e">>,
       <<"m", "a", "c", "h", "a", "k", "o", "s">>,
       <<"n", "y", "e", "r", "i">>,
       <<"n", "a", "i", "v", "a", "s", "h", "a">>,
       <<"n", "a", "n", "y", "u", "k", "i">>,
       <<"k", "i", "a", "m", "b", "u">>,
       <<"k", "a", "j", "i", "a", "d", "o">>,
       <<"k", "i", "l", "i", "f", "i">>,
       <<"l", "a", "m", "u">>,
       <<"g", "a", "r", "i", "s", "s", "a">>,
       <<"k", "a", "k", "a", "m", "e", "g", "a">>,
       <<"b", "u", "n", "g", "o", "m", "a">>,
       <<"e", "m", "b", "u">> >>

\* const regions = {...}, in the order of kenyaCities
regions ==
    << <<"N", "a", "i", "r", "o", "b", "i">>,
       <<"C", "o", "a", "s", "t">>,
       <<"N", "y", "a", "n", "z", "a">>,
       <<"R", "i", "f", "t", " ", "V", "a", "l", "l", "e", "y">>,
       <<"R", "i", "f", "t", " ", "V", "a", "l", "l", "e", "y">>,
       <<"C", "e", "n", "t", "r", "a", "l">>,
       <<"C", "o", "a", "s", "t">>,
       <<"R", "i", "f", "t", " ", "V", "a", "l", "l", "e", "y">>,
       <<"E", "a", "s", "t", "e", "r", "n">>,
       <<"C", "e", "n", "t", "r", "a", "l">>,
       <<"R", "i", "f", "t", " ", "V", "a", "l", "l", "e", "y">>,
       <<"C", "e", "n", "t", "r", "a", "l">>,
       <<"C", "e", "n", "t", "r", "a", "l">>,
       <<"R", "i", "f", "t", " ", "V", "a", "l", "l", "e", "y">>,
       <<"C", "o", "a", "s", "t">>,
       <<"C", "o", "a", "s", "t">>,
       <<"N", "o", "r", "t", "h", " ", "E", "a", "s", "t", "e", "r", "n">>,
       <<"W", "e", "s", "t", "e", "r", "n">>,
       <<"W", "e", "s", "t", "e", "r", "n">>,
       <<"E", "a", "s", "t", "e", "r", "n">> >>

\* original.replace(/[,\-\/]/g, ',')
CommaForSeparators(t) == [k \in 1..Len(t) |-> IF t[k] \in {",", "-", "/"} THEN "," ELSE t[k]]

\* cleaned.split(',')
RECURSIVE SplitOnComma(_, _)
SplitOnComma(t, part) ==
    IF t = <<>> THEN <<part>>
    ELSE IF Head(t) = "," THEN <<part>> \o SplitOnComma(Tail(t), <<>>)
    ELSE SplitOnComma(Tail(t), Append(part, Head(t)))

\* .map(p => p.trim()).filter(Boolean)
RECURSIVE TrimmedNonEmpty(_)
TrimmedNonEmpty(ps) ==
    IF ps = <<>> THEN <<>>
    ELSE IF Trim(Head(ps)) = <<>> THEN TrimmedNonEmpty(Tail(ps))
    ELSE <<Trim(Head(ps))>> \o TrimmedNonEmpty(Tail(ps))

Parts(original) == TrimmedNonEmpty(SplitOnComma(Trim(CommaForSeparators(original)), <<>>))

\* the first known city, in the order of kenyaCities, that the part includes (0: none)
CityOfPart(part) ==
    IF \E k \in 1..Len(kenyaCities) : IncludesText(ToLowerChars(part), kenyaCities[k])
    THEN CHOOSE k \in 1..Len(kenyaCities) :
            /\ IncludesText(ToLowerChars(part), kenyaCities[k])
            /\ \A j \in 1..(k - 1) : ~IncludesText(ToLowerChars(part), kenyaCities[j])
    ELSE 0

\* for (const part of parts) { ... if (city) break; }
RECURSIVE CityOfParts(_)
CityOfParts(parts) ==
    IF parts = <<>> THEN 0
    ELSE IF CityOfPart(Head(parts)) # 0 THEN CityOfPart(Head(parts))
    ELSE CityOfParts(Tail(parts))

\* knownCity.charAt(0).toUpperCase() + knownCity.slice(1)
Capitalize(w) == <<ToUpperChar(Head(w))>> \o Tail(w)

\* export function normalizeLocation(locationStr)
NormalizeLocation(input) ==
    IF input.null \/ input.text = <<>>
    THEN [area |-> NullText, city |-> NullText, region |-> NullText, original |-> NullText]
    ELSE LET original == Trim(input.text)
             parts == Parts(original)
             k == CityOfParts(parts)
         IN  [area |-> IF Len(parts) > 0 THEN Text(parts[1]) ELSE NullText,
              city |-> IF k # 0 THEN Text(Capitalize(kenyaCities[k])) ELSE NullText,
              region |-> IF k # 0 THEN Text(regions[k]) ELSE NullText,
              original |-> Text(original)]

\* Longest free text given to normalizeLocation.
MaxLocationLen == 2

LocationAlphabet == {"a", " ", ",", "-"}

\* area texts, among them Nairobi's Mombasa Road
Areas ==
    SeqsUpTo({"a", " "}, MaxLocationLen)
    \cup { <<"W", "e", "s", "t", "l", "a", "n", "d", "s">>,
           <<"M", "o", "m", "b", "a", "s", "a", " ", "R", "o", "a", "d">>,
           <<"N", "y", "a", "l", "i">> }

\* a location written "<area>, <City>", the city as in the gazetteer, capitalized or in capitals
LocationForms == [area : Areas, city : 1..Len(kenyaCities), spelling : {"lower", "Capitalized", "UPPER"}]

SpelledCity(f) ==
    IF f.spelling = "lower" THEN kenyaCities[f.city]
    ELSE IF f.spelling = "UPPER" THEN ToUpperCase(kenyaCities[f.city])
    ELSE Capitalize(kenyaCities[f.city])

LocationText(f) == f.area \o <<",", " ">> \o SpelledCity(f)

InitLocation ==
    /\ NoMain
    /\ ret = [done |-> FALSE]
    /\ \/ \E t \in {NullText} \cup {Text(x) : x \in SeqsUpTo(LocationAlphabet, MaxLocationLen)} :
            call = [fn |-> "normalizeLocation", input |-> t, form |-> FALSE, city |-> 0]
       \/ \E f \in LocationForms :
            call = [fn |-> "normalizeLocation", input |-> Text(LocationText(f)),
                    form |-> TRUE, city |-> f.city]

CallNormalizeLocation ==
    /\ opc = "unit"
    /\ call.fn = "normalizeLocation"
    /\ ~ret.done
    /\ ret' = [done |-> TRUE, threw |-> FALSE, value |-> NormalizeLocation(call.input)]
    /\ UNCHANGED <<call, priceInput, priceTarget, priceCase, priceResult>>
    /\ UNCHANGED <<ovars, cvars, siteDepth>>

NextLocation == CallNormalizeLocation

SpecLocation == InitLocation /\ [][NextLocation]_vars

\* --------------------------------------------------------- normalizeContact

\* [17]\d{8} at the start of t
PhoneBodyAt(t) ==
    /\ Len(t) >= 9
    /\ t[1] \in {"1", "7"}
    /\ \A k \in 2..9 : IsDigit(t[k])

StartsWith(t, w) == Len(t) >= Len(w) /\ SubSeq(t, 1, Len(w)) = w

\* /(\+?254|0)?[17]\d{8}/ at the start of t: the length of the match, 0 when
\* there is none. The alternatives of the prefix are tried in order and the
\* prefix is given up when the body does not follow it.
PhoneMatchAt(t) ==
    IF StartsWith(t, <<"+", "2", "5", "4">>) /\ PhoneBodyAt(Drop(t, 4)) THEN 13
    ELSE IF StartsWith(t, <<"2", "5", "4">>) /\ PhoneBodyAt(Drop(t, 3)) THEN 12
    ELSE IF StartsWith(t, <<"0">>) /\ PhoneBodyAt(Drop(t, 1)) THEN 10
    ELSE IF PhoneBodyAt(t) THEN 9
    ELSE 0

\* String(str).match(/(\+?254|0)?[17]\d{8}/g) || []
RECURSIVE PhoneMatches(_)
PhoneMatches(t) ==
    IF t = <<>> THEN <<>>
    ELSE IF PhoneMatchAt(t) > 0
         THEN <<SubSeq(t, 1, PhoneMatchAt(t))>> \o PhoneMatches(Drop(t, PhoneMatchAt(t)))
    ELSE PhoneMatches(Tail(t))

\* match.replace(/[\s\-\(\)]/g, '')
RECURSIVE RemovePhonePunctuation(_)
RemovePhonePunctuation(t) ==
    IF t = <<>> THEN <<>>
    ELSE IF Head(t) \in {" ", "-", "(", ")"} THEN RemovePhonePunctuation(Tail(t))
    ELSE <<Head(t)>> \o RemovePhonePunctuation(Tail(t))

\* Normalize to +254 format
NormalizePhone(match) ==
    LET normalized == RemovePhonePunctuation(match)
    IN  IF StartsWith(normalized, <<"0">>) THEN <<"+", "2", "5", "4">> \o Tail(normalized)
        ELSE IF StartsWith(normalized, <<"2", "5", "4">>) THEN <<"+">> \o normalized
        ELSE IF ~StartsWith(normalized, <<"+">>) THEN <<"+", "2", "5", "4">> \o normalized
        ELSE normalized

InSeq(seq, x) == \E k \in 1..Len(seq) : seq[k] = x

PushPhoneAlways(phones, p) == Append(phones, p)

\* if (!phones.includes(normalized)) phones.push(normalized);
PushPhone(phones, p) == IF InSeq(phones, p) THEN phones ELSE Append(phones, p)

RECURSIVE CollectPhones(_, _)
CollectPhones(matches, phones) ==
    IF matches = <<>> THEN phones
    ELSE CollectPhones(Tail(matches), PushPhone(phones, NormalizePhone(Head(matches))))

\* function extractPhoneNumbers(str)
ExtractPhoneNumbers(str) ==
    IF str.null \/ str.text = <<>> THEN <<>>
    ELSE CollectPhones(PhoneMatches(str.text), <<>>)

\* a || b for texts: the first that is neither null nor empty, else the last
OrText(a, b) == IF a.null \/ a.text = <<>> THEN b ELSE a

\* const phoneStr = contactData.phone || contactData.phoneNumber || contactData.mobile || '';
PhoneStr(c) == OrText(OrText(OrText(c.phone, c.phoneNumber), c.mobile), Text(<<>>))

\* the text the phone sequence is extracted from
ContactText(c) ==
    IF c.type = "null" THEN NullText
    ELSE IF c.type = "string" THEN c.text
    ELSE PhoneStr(c)

\* export function normalizeContact(contactData): the phone and whatsapp
\* fields of the result (name and email are read from other properties and do
\* not bear on them)
NormalizeContact(c) ==
    IF c.type = "null" \/ (c.type = "string" /\ c.text.text = <<>>)
    THEN [phone |-> <<>>, whatsapp |-> NullText]
    ELSE IF c.type = "string"
    THEN [phone |-> ExtractPhoneNumbers(c.text), whatsapp |-> NullText]
    ELSE [phone |-> ExtractPhoneNumbers(PhoneStr(c)),
          whatsapp |-> IF c.whatsapp.null \/ c.whatsapp.text = <<>>
                          \/ ExtractPhoneNumbers(c.whatsapp) = <<>>
                       THEN NullText
                       ELSE Text(ExtractPhoneNumbers(c.whatsapp)[1])]

\* Most pieces a contact text is made of.
MaxContactPieces == 3

\* the same line written four ways, another line, and fragments
ContactPieces ==
    { <<"0", "7", "1", "2", "3", "4", "5", "6", "7", "8">>,
      <<"+", "2", "5", "4", "7", "1", "2", "3", "4", "5", "6", "7", "8">>,
      <<"2", "5", "4", "7", "1", "2", "3", "4", "5", "6", "7", "8">>,
      <<"7", "1", "2", "3", "4", "5", "6", "7", "8">>,
      <<"0", "1", "1", "2", "3", "4", "5", "6", "7", "8">>,
      <<"0">>, <<"7">>, <<"+">>, <<" ">>, <<"-">>, <<"x">>, <<"2", "5", "4">> }

RECURSIVE Concat(_)
Concat(ps) == IF ps = <<>> THEN <<>> ELSE Head(ps) \o Concat(Tail(ps))

ContactTexts == {Concat(ps) : ps \in SeqsUpTo(ContactPieces, MaxContactPieces)}

ContactFieldValues ==
    { NullText, Text(<<>>), Text(<<"0", "7", "1", "2", "3", "4", "5", "6", "7", "8">>),
      Text(<<"0", "1", "1", "2", "3", "4", "5", "6", "7", "8", " ", "/", " ", "+", "2", "5", "4", "7", "1", "2", "3", "4", "5", "6", "7", "8">>) }

ContactInputs ==
    {[type |-> "null"]}
    \cup {[type |-> "string", text |-> Text(t)] : t \in ContactTexts}
    \cup [type : {"object"}, phone : ContactFieldValues, phoneNumber : ContactFieldValues,
          mobile : ContactFieldValues, whatsapp : ContactFieldValues]

InitContact ==
    /\ NoMain
    /\ ret = [done |-> FALSE]
    /\ \E c \in ContactInputs : call = [fn |-> "normalizeContact", input |-> c]

CallNormalizeContact ==
    /\ opc = "unit"
    /\ call.fn = "normalizeContact"
    /\ ~ret.done
    /\ ret' = [done |-> TRUE, threw |-> FALSE, value |-> NormalizeContact(call.input)]
    /\ UNCHANGED <<call, priceInput, priceTarget, priceCase, priceResult>>
    /\ UNCHANGED <<ovars, cvars, siteDepth>>

NextContact == CallNormalizeContact

SpecContact == InitContact /\ [][NextContact]_vars

\* --------------------------------------------------------- normalizeListing

\* the properties normalizeContact reads of a value (null: not there)
NoProps == [phone |-> NullText, phoneNumber |-> NullText, mobile |-> NullText, whatsapp |-> NullText]

\* A JavaScript value of a raw record: an absent property (undefined), null,
\* a text, a number, an array of values, or an object.
Absent == [kind |-> "absent", text |-> <<>>, n |-> 0, items |-> <<>>, props |-> NoProps]

Null == [kind |-> "null", text |-> <<>>, n |-> 0, items |-> <<>>, props |-> NoProps]

Str(t) == [kind |-> "text", text |-> t, n |-> 0, items |-> <<>>, props |-> NoProps]

Number(n) == [kind |-> "number", text |-> <<>>, n |-> n, items |-> <<>>, props |-> NoProps]

Array(items) == [kind |-> "array", text |-> <<>>, n |-> 0, items |-> items, props |-> NoProps]

Object(props) == [kind |-> "object", text |-> <<>>, n |-> 0, items |-> <<>>, props |-> props]

\* ToBoolean
Truthy(v) ==
    \/ v.kind = "text" /\ v.text # <<>>
    \/ v.kind = "number" /\ v.n # 0
    \/ v.kind \in {"array", "object"}

\* a || b
Or(a, b) == IF Truthy(a) THEN a ELSE b

RECURSIVE JoinItems(_)

\* String(v)
StringOf(v) ==
    IF v.kind = "text" THEN v.text
    ELSE IF v.kind = "number" THEN PlainDigits(v.n)
    ELSE IF v.kind = "array" THEN JoinItems(v.items)
    ELSE IF v.kind = "object" THEN <<"[", "o", "b", "j", "e", "c", "t", " ", "O", "b", "j", "e", "c", "t", "]">>
    ELSE IF v.kind = "null" THEN <<"n", "u", "l", "l">>
    ELSE <<"u", "n", "d", "e", "f", "i", "n", "e", "d">>

\* Array.prototype.join: null and undefined items are written as nothing
JoinItems(items) ==
    IF items = <<>> THEN <<>>
    ELSE (IF Head(items).kind \in {"absent", "null"} THEN <<>> ELSE StringOf(Head(items)))
         \o (IF Len(items) > 1 THEN <<",">> ELSE <<>>)
         \o JoinItems(Tail(items))

\* the argument of a function that tests !arg and then reads String(arg)
AsText(v) == IF Truthy(v) THEN Text(StringOf(v)) ELSE NullText

HouseWords == {<<"h", "o", "u", "s", "e">>, <<"v", "i", "l", "l", "a">>, <<"b", "u", "n", "g", "a", "l", "o", "w">>, <<"t", "o", "w", "n", "h", "o", "u", "s", "e">>}

ApartmentWords == {<<"a", "p", "a", "r", "t", "m", "e", "n", "t">>, <<"f", "l", "a", "t">>, <<"s", "t", "u", "d", "i", "o">>, <<"b", "e", "d", "s", "i", "t", "t", "e", "r">>}

LandWords == {<<"l", "a", "n", "d">>, <<"p", "l", "o", "t">>}

CommercialWords == {<<"c", "o", "m", "m", "e", "r", "c", "i", "a", "l">>, <<"o", "f", "f", "i", "c", "e">>, <<"s", "h", "o", "p">>, <<"w", "a", "r", "e", "h", "o", "u", "s", "e">>}

IncludesAny(t, words) == \E w \in words : IncludesText(t, w)

\* function normalizePropertyType(type)
NormalizePropertyType(type) ==
    IF ~Truthy(type) THEN "unknown"
    ELSE LET t == ToLowerChars(StringOf(type))
         IN  IF IncludesAny(t, HouseWords) THEN "house"
             ELSE IF IncludesAny(t, ApartmentWords) THEN "apartment"
             ELSE IF IncludesAny(t, LandWords) THEN "land"
             ELSE IF IncludesAny(t, CommercialWords) THEN "commercial"
             ELSE "other"

\* function normalizeListingType(type)
NormalizeListingType(type) ==
    IF ~Truthy(type) THEN "unknown"
    ELSE LET t == ToLowerChars(StringOf(type))
         IN  IF IncludesAny(t, {<<"s", "a", "l", "e">>, <<"b", "u", "y">>}) THEN "sale"
             ELSE IF IncludesAny(t, {<<"r", "e", "n", "t">>, <<"l", "e", "t">>}) THEN "rent"
             ELSE "unknown"

IsWordChar(c) ==
    \/ IsDigit(c)
    \/ c = "_"
    \/ \E k \in 1..26 : LowerLetters[k] = c \/ UpperLetters[k] = c

RECURSIVE TrailingWordRun(_)
TrailingWordRun(t) ==
    IF t # <<>> /\ IsWordChar(t[Len(t)])
    THEN TrailingWordRun(SubSeq(t, 1, Len(t) - 1)) \o <<t[Len(t)]>>
    ELSE <<>>

EndsWith(t, w) == Len(t) >= Len(w) /\ SubSeq(t, Len(t) - Len(w) + 1, Len(t)) = w

\* the match of /-thumb\.\w+$/ in url: how many characters it spans (0: no match)
ThumbSuffixLen(url) ==
    LET ext == TrailingWordRun(url)
        stem == SubSeq(url, 1, Len(url) - Len(ext))
    IN  IF ext # <<>> /\ EndsWith(stem, <<"-", "t", "h", "u", "m", "b", ".">>)
        THEN Len(ext) + 7 ELSE 0

\* url.replace(/-thumb\.\w+$/, '.$1'): the pattern has no group, so $1 in the
\* replacement stands for itself
ReplaceThumb(url) ==
    IF ThumbSuffixLen(url) = 0 THEN url
    ELSE SubSeq(url, 1, Len(url) - ThumbSuffixLen(url)) \o <<".", "$", "1">>

\* .map(img => { ... })
ImageUrl(img) ==
    LET url == Trim(img)
    IN  ReplaceThumb(IF StartsWith(url, <<"/", "/">>) THEN <<"h", "t", "t", "p", "s", ":">> \o url ELSE url)

\* .filter(img => img && typeof img === 'string').map(...).filter(url => url.startsWith('http'))
RECURSIVE ImageUrls(_)
ImageUrls(items) ==
    IF items = <<>> THEN <<>>
    ELSE IF Head(items).kind = "text" /\ Head(items).text # <<>>
            /\ StartsWith(ImageUrl(Head(items).text), <<"h", "t", "t", "p">>)
         THEN <<ImageUrl(Head(items).text)>> \o ImageUrls(Tail(items))
    ELSE ImageUrls(Tail(items))

\* export function normalizeImages(images)
NormalizeImages(images) ==
    IF ~Truthy(images) THEN <<>>
    ELSE ImageUrls(IF images.kind = "array" THEN images.items ELSE <<images>>)

NoNumber == [null |-> TRUE, n |-> 0]

\* parseInt(String(val), 10), null for NaN: leading spaces, a sign, digits
ParseInt(t) ==
    LET u == TrimStart(t)
        neg == u # <<>> /\ Head(u) = "-"
        body == IF u # <<>> /\ Head(u) \in {"+", "-"} THEN Tail(u) ELSE u
    IN  IF DigitRun(body) = <<>> THEN NoNumber
        ELSE [null |-> FALSE,
              n |-> IF neg THEN 0 - DigitsValue(DigitRun(body)) ELSE DigitsValue(DigitRun(body))]

\* function parseNumber(val)
ParseNumber(val) == IF val.kind \in {"absent", "null"} THEN NoNumber ELSE ParseInt(StringOf(val))

NoSize == [value |-> NullAmount, unit |-> NullText]

\* sqft|sq\.?\s*ft|sqm|sq\.?\s*m|acres?|hectares? at the start of t, as it is
\* written once dots and spaces are removed (<<>>: no match)
SizeUnitAt(t) ==
    LET afterSq == IF StartsWith(t, <<"s", "q">>)
                   THEN TrimStart(IF StartsWith(Drop(t, 2), <<".">>) THEN Drop(t, 3) ELSE Drop(t, 2))
                   ELSE <<>>
    IN  IF StartsWith(afterSq, <<"f", "t">>) THEN <<"s", "q", "f", "t">>
        ELSE IF StartsWith(afterSq, <<"m">>) THEN <<"s", "q", "m">>
        ELSE IF StartsWith(t, <<"a", "c", "r", "e", "s">>) THEN <<"a", "c", "r", "e", "s">>
        ELSE IF StartsWith(t, <<"a", "c", "r", "e">>) THEN <<"a", "c", "r", "e">>
        ELSE IF StartsWith(t, <<"h", "e", "c", "t", "a", "r", "e", "s">>) THEN <<"h", "e", "c", "t", "a", "r", "e", "s">>
        ELSE IF StartsWith(t, <<"h", "e", "c", "t", "a", "r", "e">>) THEN <<"h", "e", "c", "t", "a", "r", "e">>
        ELSE <<>>

IsSizeChar(c) == IsDigit(c) \/ c \in {",", "."}

RECURSIVE SizeRun(_)
SizeRun(t) ==
    IF t # <<>> /\ IsSizeChar(Head(t)) THEN <<Head(t)>> \o SizeRun(Tail(t)) ELSE <<>>

RECURSIVE RemoveCommas(_)
RemoveCommas(t) ==
    IF t = <<>> THEN <<>>
    ELSE IF Head(t) = "," THEN RemoveCommas(Tail(t))
    ELSE <<Head(t)>> \o RemoveCommas(Tail(t))

\* str.match(/([\d,.]+)\s*(sqft|sq\.?\s*ft|sqm|sq\.?\s*m|acres?|hectares?)/i):
\* the first run of digits, commas and dots that a unit follows
RECURSIVE SizeMatch(_)
SizeMatch(t) ==
    IF t = <<>> THEN NoSize
    ELSE IF IsSizeChar(Head(t))
         THEN IF SizeUnitAt(TrimStart(Drop(t, Len(SizeRun(t))))) # <<>>
              THEN [value |-> ParseFloat(RemoveCommas(SizeRun(t))),
                    unit |-> Text(SizeUnitAt(TrimStart(Drop(t, Len(SizeRun(t))))))]
              ELSE SizeMatch(Drop(t, Len(SizeRun(t))))
    ELSE SizeMatch(Tail(t))

\* function parseSize(sizeStr)
ParseSize(v) == IF ~Truthy(v) THEN NoSize ELSE SizeMatch(ToLowerChars(StringOf(v)))

\* the argument normalizeContact sees
ContactOf(v) ==
    IF ~Truthy(v) THEN [type |-> "null"]
    ELSE IF v.kind = "text" THEN [type |-> "string", text |-> Text(v.text)]
    ELSE [type |-> "object", phone |-> v.props.phone, phoneNumber |-> v.props.phoneNumber,
          mobile |-> v.props.mobile, whatsapp |-> v.props.whatsapp]

\* the properties normalizeListing reads of a raw record
ListingFields ==
    {"id", "listingId", "url", "title", "description", "listingType", "type", "propertyType",
     "category", "price", "location", "address", "contact", "agent", "images", "photos",
     "bedrooms", "beds", "bathrooms", "baths", "size", "area", "parking", "furnished",
     "postedAt", "datePosted"}

\* v?.trim() throws a TypeError for a value that is neither undefined, null nor a text
TrimThrows(v) == v.kind \notin {"absent", "null", "text"}

\* v?.trim() || null
TrimOrNull(v) == IF v.kind = "text" /\ Trim(v.text) # <<>> THEN Str(Trim(v.text)) ELSE Null

\* export function normalizeListing(rawListing, source, targetCurrency = 'KES')
NormalizeListing(raw, source, target) ==
    IF TrimThrows(raw["title"]) \/ TrimThrows(raw["description"])
    THEN [threw |-> TRUE]
    ELSE [threw |-> FALSE,
          value |-> [
            id |-> Or(Or(raw["id"], raw["listingId"]), Null),
            source |-> source,
            url |-> Or(raw["url"], Null),
            title |-> TrimOrNull(raw["title"]),
            description |-> TrimOrNull(raw["description"]),
            listingType |-> NormalizeListingType(Or(raw["listingType"], raw["type"])),
            propertyType |-> NormalizePropertyType(Or(raw["propertyType"], raw["category"])),
            price |-> NormalizePrice(AsText(raw["price"]), target),
            location |-> NormalizeLocation(AsText(Or(raw["location"], raw["address"]))),
            contact |-> NormalizeContact(ContactOf(Or(raw["contact"], raw["agent"]))),
            images |-> NormalizeImages(Or(raw["images"], raw["photos"])),
            features |-> [
                bedrooms |-> ParseNumber(Or(raw["bedrooms"], raw["beds"])),
                bathrooms |-> ParseNumber(Or(raw["bathrooms"], raw["baths"])),
                size |-> ParseSize(Or(raw["size"], raw["area"])),
                parking |-> Or(raw["parking"], Null),
                furnished |-> Or(raw["furnished"], Null)],
            postedAt |-> Or(Or(raw["postedAt"], raw["datePosted"]), Null),
            scrapedAt |-> "now"]]

\* the complete raw record of the tests
BaseRaw ==
    [f \in ListingFields |->
        CASE f = "id" -> Str(<<"1", "2", "3", "4", "5">>)
          [] f = "url" -> Str(<<"h", "t", "t", "p", "s", ":", "/", "/", "a", "/", "l", "i", "s", "t", "i", "n", "g", "/", "1", "2", "3", "4", "5">>)
          [] f = "title" -> Str(<<" ", "3", " ", "B", "e", "d", "r", "o", "o", "m", " ", "H", "o", "u", "s", "e", " ">>)
          [] f = "description" -> Str(<<"B", "e", "a", "u", "t", "i", "f", "u", "l", " ", "h", "o", "u", "s", "e">>)
          [] f = "listingType" -> Str(<<"s", "a", "l", "e">>)
          [] f = "propertyType" -> Str(<<"h", "o", "u", "s", "e">>)
          [] f = "price" -> Str(<<"K", "E", "S", " ", "1", "5", ",", "0", "0", "0">>)
          [] f = "location" -> Str(<<"W", "e", "s", "t", "l", "a", "n", "d", "s", ",", " ", "N", "a", "i", "r", "o", "b", "i">>)
          [] f = "contact" -> Object([NoProps EXCEPT !.phone = Text(<<"0", "7", "2", "2", "1", "2", "3", "4", "5", "6">>)])
          [] f = "images" -> Array(<<Str(<<"h", "t", "t", "p", "s", ":", "/", "/", "a", "/", "i", "m", "g", "1", ".", "j", "p", "g">>)>>)
          [] f = "bedrooms" -> Str(<<"3">>)
          [] f = "bathrooms" -> Str(<<"2">>)
          [] f = "size" -> Str(<<"1", ",", "2", "0", "0", " ", "s", "q", ".", " ", "f", "t">>)
          [] f = "postedAt" -> Str(<<"2", " ", "d", "a", "y", "s", " ", "a", "g", "o">>)
          [] OTHER -> Absent]

\* the fields a raw record may lack or hold in another shape
DegradableFields ==
    {"id", "url", "title", "description", "listingType", "propertyType", "price", "location",
     "contact", "images", "bedrooms", "bathrooms", "size", "postedAt"}

DegradedValues == {Absent, Null, Str(<<>>), Number(0), Number(5)}

\* Most fields of one raw record that are absent, empty or of another type.
MaxDegraded == 2

\* Most pieces a property type text is made of.
MaxTypePieces == 2

TypePieces ==
    HouseWords \cup ApartmentWords \cup LandWords \cup CommercialWords
    \cup {<<"x">>, <<" ">>, <<"V", "i", "l", "l", "a">>, <<"W", "A", "R", "E", "H", "O", "U", "S", "E">>}

TypeTexts == {Concat(ps) : ps \in SeqsUpTo(TypePieces, MaxTypePieces)}

\* the record d laid over the complete record
Degraded(d) == [f \in ListingFields |-> IF f \in DOMAIN d THEN d[f] ELSE BaseRaw[f]]

\* Most items of an array of images.
MaxImages == 2

\* an image URL written prefix, stem, extension, with or without spaces around it
ImageForms ==
    [prefix : {<<"h", "t", "t", "p", "s", ":", "/", "/", "a", "/">>, <<"/", "/", "a", "/">>, <<"f", "t", "p", ":", "/", "/", "a", "/">>, <<"/">>},
     stem : {<<"i", "m", "g">>, <<"i", "m", "g", "-", "t", "h", "u", "m", "b">>, <<"-", "t", "h", "u", "m", "b">>},
     ext : {<<>>, <<".", "j", "p", "g">>, <<".", "p", "n", "g", "_", "1">>, <<".", "j", "-", "g">>, <<".", "j", "p", "g", "?", "x">>},
     pad : {<<>>, <<" ">>}]

ImageText(f) == f.pad \o f.prefix \o f.stem \o f.ext \o f.pad

\* the form ends in -thumb.<ext>, ext a run of word characters
IsThumbForm(f) ==
    /\ f.stem \in {<<"i", "m", "g", "-", "t", "h", "u", "m", "b">>, <<"-", "t", "h", "u", "m", "b">>}
    /\ f.ext \in {<<".", "j", "p", "g">>, <<".", "p", "n", "g", "_", "1">>}

\* the URL of the form without -thumb, trimmed, with https: before //
FullSizeUrl(f) ==
    (IF f.prefix = <<"/", "/", "a", "/">> THEN <<"h", "t", "t", "p", "s", ":">> ELSE <<>>) \o f.prefix
    \o (IF IsThumbForm(f) THEN SubSeq(f.stem, 1, Len(f.stem) - 6) ELSE f.stem)
    \o f.ext

ImageItems ==
    { Null, Number(5), Str(<<>>), Str(<<"h", "t", "t", "p", "s", ":", "/", "/", "a", "/", "i", "m", "g", ".", "j", "p", "g">>),
      Str(<<"/", "/", "a", "/", "i", "m", "g", "-", "t", "h", "u", "m", "b", ".", "p", "n", "g">>), Str(<<"/", "i", "m", "g", ".", "j", "p", "g">>) }

InitListing ==
    /\ NoMain
    /\ ret = [done |-> FALSE]
    /\ \/ \E fs \in SUBSET DegradableFields :
            /\ Cardinality(fs) <= MaxDegraded
            /\ \E d \in [fs -> DegradedValues], src \in {"buyrentkenya", "jiji"} :
                 call = [fn |-> "normalizeListing", input |-> Degraded(d),
                         source |-> src, target |-> "KES"]
       \/ \E t \in TypeTexts, v \in {Absent, Str(<<>>)}, alias \in BOOLEAN :
            call = [fn |-> "normalizeListing",
                    input |-> IF alias
                              THEN [BaseRaw EXCEPT !["propertyType"] = v, !["category"] = Str(t)]
                              ELSE [BaseRaw EXCEPT !["propertyType"] = Str(t)],
                    source |-> "jiji", target |-> "KES"]
       \/ \E f \in ImageForms :
            call = [fn |-> "normalizeImages", input |-> Str(ImageText(f)), form |-> TRUE,
                    thumb |-> IsThumbForm(f),
                    http |-> f.prefix \in {<<"h", "t", "t", "p", "s", ":", "/", "/", "a", "/">>, <<"/", "/", "a", "/">>},
                    expect |-> FullSizeUrl(f)]
       \/ \E v \in {Absent, Null} \cup {Array(items) : items \in SeqsUpTo(ImageItems, MaxImages)} :
            call = [fn |-> "normalizeImages", input |-> v, form |-> FALSE,
                    thumb |-> FALSE, http |-> FALSE, expect |-> <<>>]

CallNormalizeListing ==
    /\ opc = "unit"
    /\ call.fn = "normalizeListing"
    /\ ~ret.done
    /\ ret' = [done |-> TRUE] @@ NormalizeListing(call.input, call.source, call.target)
    /\ UNCHANGED <<call, priceInput, priceTarget, priceCase, priceResult>>
    /\ UNCHANGED <<ovars, cvars, siteDepth>>

CallNormalizeImages ==
    /\ opc = "unit"
    /\ call.fn = "normalizeImages"
    /\ ~ret.done
    /\ ret' = [done |-> TRUE, threw |-> FALSE, value |-> NormalizeImages(call.input)]
    /\ UNCHANGED <<call, priceInput, priceTarget, priceCase, priceResult>>
    /\ UNCHANGED <<ovars, cvars, siteDepth>>

NextListing == CallNormalizeListing \/ CallNormalizeImages

SpecListing == InitListing /\ [][NextListing]_vars

\* ------------------------------------------------------------------ claims

AllIdle == \A s \in 1..MaxWidth : slots[s].pc = "idle"

InFlightDetail ==
    Cardinality({s \in 1..MaxWidth : slots[s].pc # "idle" /\ slots[s].label = "DETAIL"})

QueuedDetail == Cardinality({k \in 1..Len(queue) : queue[k].label = "DETAIL"})

Registered(name) == ToLowerCase(name) \in {"buyrentkenya", "jiji"}

\* C1: at every moment of a crawl the number of listings one crawler has
\* collected is at least 0 and at most maxListings plus the number of DETAIL
\* handlers in flight, and no step of the crawl lowers it.
C1_QuotaSlack ==
    /\ [](/\ Len(listings) = listingCount
          /\ listingCount >= 0
          /\ listingCount <= cap + InFlightDetail)
    /\ [][opc = "crawl" => listingCount' >= listingCount /\ Len(listings') >= Len(listings)]_vars

\* The quota is reached while a further DETAIL request is still in flight.
C1_Witness == opc = "crawl" /\ cap = 2 /\ listingCount = cap /\ InFlightDetail >= 1

\* C2: listings scraped plus DETAIL requests enqueued and not yet handled is at
\* most maxListings in every state of a crawl.
C2_ScrapedPlusEnqueuedWithinQuota ==
    opc = "crawl" => listingCount + QueuedDetail + InFlightDetail <= cap

C4_UnknownSourceSkipped ==
    [][(opc = "loop" /\ srcIdx <= Len(sources) /\ ~Registered(sources[srcIdx]))
         => /\ opc' = "loop"
            /\ srcIdx' = srcIdx + 1
            /\ allListings' = allListings
            /\ crawled' = crawled
            /\ error' = "none"]_vars

\* C5: the aggregate is touched and the next source is taken up only while no
\* handler of a crawler is in flight, every listing in the aggregate comes from
\* a source before the current one, and the aggregate lists the sources in
\* their configured order, each source's listings in their order of collection.
C5_SequentialSourceOrder ==
    /\ opc # "crawl" => AllIdle
    /\ \A k \in 1..Len(allListings) :
         /\ allListings[k].run \in crawled
         /\ opc = "crawl" => allListings[k].run < srcIdx
    /\ \A j, k \in 1..Len(allListings) :
         j < k => \/ allListings[j].run < allListings[k].run
                  \/ /\ allListings[j].run = allListings[k].run
                     /\ allListings[j].n < allListings[k].n

\* The run ended with listings of two sources in the aggregate.
C5_Witness ==
    /\ opc = "done"
    /\ \E j, k \in 1..Len(allListings) : allListings[j].run # allListings[k].run

\* C6 as stated: a failure changes nothing but the log, and once the crawl is
\* over no request is left queued.
C6_FailureLeavesNothingQueued ==
    /\ [][errorLog' > errorLog =>
            /\ listings' = listings
            /\ listingCount' = listingCount
            /\ queue' = queue
            /\ opc' = "crawl"]_vars
    /\ [](opc # "crawl" /\ errorLog > 0 => queue = <<>>)

\* C6 amended: a failure changes nothing but the log, and once the crawl is
\* over no request is left queued unless the engine has finished its
\* maxListings + 50 requests.
C6_FailureOnlyLogged ==
    /\ [][errorLog' > errorLog =>
            /\ listings' = listings
            /\ listingCount' = listingCount
            /\ queue' = queue
            /\ opc' = "crawl"]_vars
    /\ [](opc # "crawl" /\ errorLog > 0 /\ handled < MaxRequestsPerCrawl(cap) => queue = <<>>)

\* A request failed while another was queued, and a listing was collected
\* after it, in a crawl that ended below the engine's limit.
C6_Witness ==
    /\ opc = "done"
    /\ errorLog >= 1
    /\ listingCount >= 1
    /\ listings[1].n = 1
    /\ handled < MaxRequestsPerCrawl(cap)
    /\ raised = "none"

NoSuccessSummary == \A k \in 1..Len(output) : ~output[k].success

SuccessSummaryRight ==
    \A k \in 1..Len(output) :
        output[k].success =>
            /\ srcIdx > Len(sources)
            /\ output[k].totalListings = Len(allListings)

C8_GrammarAmountRecovered ==
    (priceResult.done /\ priceCase.family /\ priceTarget = priceCase.currency) =>
        /\ priceResult.amount = Num(priceCase.value, 0)
        /\ priceResult.original = Text(Trim(priceInput.text))

\* "KES 5,000,000" padded with spaces was normalized to 5000000 in KES.
C8_Witness ==
    /\ priceResult.done
    /\ priceCase.family
    /\ priceTarget = "KES"
    /\ priceInput.text = <<" ", "K", "E", "S", " ", "5", ",", "0", "0", "0", ",", "0", "0", "0", " ">>
    /\ priceResult.amount = Num(5000000, 0)

\* C9: a USD amount with target KES becomes round(a * 156.25), a KES amount
\* with target USD becomes a * 0.0064 rounded to 2 decimals, an amount whose
\* currency is the target is returned as written; "$1000" gives 156250 KES and
\* "KES 156250" gives 1000 USD.
C9_ConversionByRate ==
    (priceResult.done /\ priceCase.family) =>
        /\ (priceCase.currency = "USD" /\ priceTarget = "KES") =>
              /\ priceResult.amount = Num(156 * priceCase.value + (priceCase.value + 2) \div 4, 0)
              /\ priceResult.amount.p >= 0
        /\ (priceCase.currency = "KES" /\ priceTarget = "USD") =>
              /\ priceResult.amount = Num((64 * priceCase.value + 50) \div 100, -2)
              /\ priceResult.amount.p >= -2
        /\ priceCase.currency = priceTarget =>
              priceResult.amount = Num(priceCase.value, 0)
        /\ (priceInput.text = <<"$", "1", "0", "0", "0">> /\ priceTarget = "KES") =>
              priceResult.amount = Num(156250, 0)
        /\ (priceInput.text = <<"K", "E", "S", " ", "1", "5", "6", "2", "5", "0">> /\ priceTarget = "USD") =>
              priceResult.amount = Num(1000, 0)

\* "$7" was converted to KES: 7 * 156.25 = 1093.75, rounded to 1094.
C9_Witness ==
    /\ priceResult.done
    /\ priceInput.text = <<"$", "7">>
    /\ priceTarget = "KES"
    /\ priceResult.amount = Num(1094, 0)

\* C10: the currency of every returned Price is KES or USD.
C10_CurrencySupported ==
    priceResult.done => priceResult.currency \in {"KES", "USD"}

\* C11: for a location written "<area>, <City>", City one of the 20 gazetteer
\* entries, city is the capitalized gazetteer form of City and region is the
\* region of City.
C11_CityOfAreaCityForm ==
    (ret.done /\ call.fn = "normalizeLocation" /\ call.form) =>
        /\ ret.value.city = Text(Capitalize(kenyaCities[call.city]))
        /\ ret.value.region = Text(regions[call.city])

CanonicalPhone(p) ==
    /\ Len(p) = 13
    /\ SubSeq(p, 1, 4) = <<"+", "2", "5", "4">>
    /\ \A k \in 5..13 : IsDigit(p[k])

\* the first of the phone numbers found in the text t, from left to right,
\* that is written p in canonical form
FirstOccurrence(t, p) ==
    CHOOSE k \in 1..Len(PhoneMatches(t)) :
        /\ NormalizePhone(PhoneMatches(t)[k]) = p
        /\ \A j \in 1..(k - 1) : NormalizePhone(PhoneMatches(t)[j]) # p

\* C12: every entry of the phone sequence is +254 followed by exactly 9
\* digits, no value occurs twice, and the entries are in the order of their
\* first occurrence in the input text.
C12_PhonesCanonicalUniqueOrdered ==
    (ret.done /\ call.fn = "normalizeContact") =>
        LET phone == ret.value.phone
            text == ContactText(call.input).text
        IN  /\ \A i \in 1..Len(phone) : CanonicalPhone(phone[i])
            /\ \A i, j \in 1..Len(phone) : i # j => phone[i] # phone[j]
            /\ \A i \in 1..Len(phone) :
                  /\ IncludesText(text, SubSeq(phone[i], 5, 13))
                  /\ \E k \in 1..Len(PhoneMatches(text)) : NormalizePhone(PhoneMatches(text)[k]) = phone[i]
            /\ \A i, j \in 1..Len(phone) :
                  i < j => FirstOccurrence(text, phone[i]) < FirstOccurrence(text, phone[j])

\* "0112345678" + "0712345678" + "+254712345678" gave the two lines once each,
\* in that order.
C12_Witness ==
    /\ ret.done
    /\ call.fn = "normalizeContact"
    /\ call.input.type = "string"
    /\ call.input.text.text = <<"0", "1", "1", "2", "3", "4", "5", "6", "7", "8">> \o <<"0", "7", "1", "2", "3", "4", "5", "6", "7", "8">> \o <<"+", "2", "5", "4", "7", "1", "2", "3", "4", "5", "6", "7", "8">>
    /\ ret.value.phone = << <<"+", "2", "5", "4", "1", "1", "2", "3", "4", "5", "6", "7", "8">>, <<"+", "2", "5", "4", "7", "1", "2", "3", "4", "5", "6", "7", "8">> >>

\* the raw propertyType text of the call, in lower case (<<>>: none)
TypeArgument == Or(call.input["propertyType"], call.input["category"])

TypeText == IF Truthy(TypeArgument) THEN ToLowerChars(StringOf(TypeArgument)) ELSE <<>>

TypeGroups(t) ==
    {g \in {"house", "apartment", "land", "commercial"} :
        IncludesAny(t, CASE g = "house" -> HouseWords
                         [] g = "apartment" -> ApartmentWords
                         [] g = "land" -> LandWords
                         [] g = "commercial" -> CommercialWords)}

\* C13: a propertyType text with keywords of one group is classified into
\* that group, any other non-empty text as other, empty or null as unknown;
\* each single keyword given alone is classified into its own group.
C13_PropertyTypeByKeyword ==
    (ret.done /\ call.fn = "normalizeListing" /\ ~ret.threw) =>
        /\ TypeText \in HouseWords => ret.value.propertyType = "house"
        /\ TypeText \in ApartmentWords => ret.value.propertyType = "apartment"
        /\ TypeText \in LandWords => ret.value.propertyType = "land"
        /\ TypeText \in CommercialWords => ret.value.propertyType = "commercial"
        /\ \A g \in TypeGroups(TypeText) : TypeGroups(TypeText) = {g} => ret.value.propertyType = g
        /\ (Truthy(TypeArgument) /\ TypeGroups(TypeText) = {}) => ret.value.propertyType = "other"
        /\ ~Truthy(TypeArgument) => ret.value.propertyType = "unknown"

\* C14: normalizeListing raises no error for a raw record with absent, empty
\* or malformed fields, and every field that is absent, null or empty
\* degrades to its null or empty value.
C14_ListingNeverThrows ==
    (ret.done /\ call.fn = "normalizeListing") =>
        /\ ~ret.threw
        /\ ~Truthy(call.input["id"]) => ret.value.id = Null
        /\ ~Truthy(call.input["title"]) => ret.value.title = Null
        /\ ~Truthy(call.input["price"]) => ret.value.price.amount = NullAmount
        /\ ~Truthy(call.input["location"]) => ret.value.location.city = NullText
        /\ ~Truthy(call.input["contact"]) => ret.value.contact.phone = <<>>
        /\ ~Truthy(call.input["images"]) => ret.value.images = <<>>
        /\ ~Truthy(call.input["bedrooms"]) => ret.value.features.bedrooms = NoNumber
        /\ ~Truthy(call.input["size"]) => ret.value.features.size = NoSize

\* C15: an image URL ending in -thumb.<ext> is returned with that suffix
\* replaced by .<ext>; a URL without such a suffix is returned trimmed, with
\* https: before a leading //.
C15_ThumbSuffixKeepsExtension ==
    (ret.done /\ call.fn = "normalizeImages" /\ call.form /\ call.http) =>
        ret.value = <<call.expect>>

\* C16: for a non-empty price text whose cleaned form contains no digit the
\* amount is null, and in every result the amount is null or a finite number.
C16_NoDigitNoAmount ==
    priceResult.done =>
        /\ priceResult.amount.kind \in {"null", "num"}
        /\ (/\ ~priceInput.null
            /\ priceInput.text # <<>>
            /\ \A k \in 1..Len(Cleaned(Trim(priceInput.text))) :
                  ~IsDigit(Cleaned(Trim(priceInput.text))[k]))
           => priceResult.amount = NullAmount

\* C17: the detail links accepted from one LIST page hold no URL twice.
C17_LinksDedupedWithinPage ==
    \A s \in 1..MaxWidth :
        \A i, j \in 1..Len(slots[s].links) : i # j => slots[s].links[i] # slots[s].links[j]

\* a LIST handler finishes in this step
ListHandlerEnds(s) == slots[s].pc = "enqueue" /\ slots'[s].pc = "idle"

EnqueuesList == Len(queue') = Len(queue) + 1 /\ queue'[Len(queue')].label = "LIST"

\* C18: a LIST handler enqueues a next-page LIST request only if listings
\* scraped plus links accepted from its page is below maxListings, and then
\* after every DETAIL request of the page; when the accepted links fill the
\* budget it enqueues nothing further.
C18_PaginationOnlyWithBudget ==
    [][\A s \in 1..MaxWidth :
          ListHandlerEnds(s) =>
              /\ EnqueuesList =>
                    /\ listingCount + Len(slots[s].links) < cap
                    /\ slots[s].i = Len(slots[s].links) + 1
                    /\ queue'[Len(queue')].url = slots[s].url + 1
              /\ ~EnqueuesList => queue' = queue
              /\ listingCount + Len(slots[s].links) >= cap => queue' = queue]_vars

\* the next-page LIST request is queued behind a DETAIL request of its page
C18_Witness ==
    \E k \in 1..Len(queue) :
        /\ queue[k].label = "LIST"
        /\ queue[k].url = 2
        /\ \E j \in 1..(k - 1) : queue[j].label = "DETAIL"

\* a DETAIL handler finishes in this step (a failed request is logged instead)
DetailHandlerEnds(s) ==
    /\ slots[s].pc = "fetched"
    /\ slots[s].label = "DETAIL"
    /\ slots'[s].pc = "idle"
    /\ errorLog' = errorLog

\* C19: a DETAIL request handled at the quota changes neither the result
\* list, the counter nor the queue; one handled below the quota appends one
\* listing and adds 1 to the counter; no DETAIL handler enqueues a request.
C19_DetailFrame ==
    [][\A s \in 1..MaxWidth :
          DetailHandlerEnds(s) =>
              /\ queue' = queue
              /\ listingCount >= cap => (listings' = listings /\ listingCount' = listingCount)
              /\ listingCount < cap =>
                    /\ Len(listings') = Len(listings) + 1
                    /\ SubSeq(listings', 1, Len(listings)) = listings
                    /\ listingCount' = listingCount + 1]_vars

\* two pages and three DETAIL requests were handled for a quota of two: the
\* third DETAIL request met the quota and was dropped
C19_Witness ==
    /\ opc = "crawl"
    /\ cap = 2
    /\ listingCount = 2
    /\ Len(listings) = 2
    /\ errorLog = 0
    /\ handled = 5
    /\ AllIdle

\* C20 as stated: every crawl comes to an end, and one crawler never handles
\* more than maxListings + 50 requests.
C20_HandledWithinLimit ==
    /\ [](handled <= MaxRequestsPerCrawl(cap))
    /\ (opc = "crawl") ~> (opc # "crawl")

\* C20 amended: every crawl comes to an end, and one crawler never handles
\* more than maxListings + 50 requests plus those that were in flight beside
\* the one that reached the limit.
C20_HandledWithinLimitAndFlight ==
    /\ [](handled <= MaxRequestsPerCrawl(cap) + MaxWidth - 1)
    /\ (opc = "crawl") ~> (opc # "crawl")

\* a crawl on a site deeper than the limit is over: the engine stopped it,
\* and the request in flight beside the last one was handled beyond the limit
C20_Witness ==
    /\ opc = "done"
    /\ raised = "none"
    /\ handled = MaxRequestsPerCrawl(cap) + MaxWidth - 1
    /\ siteDepth > handled

====
